---- MODULE Spec2Model ----
(***************************************************************************)
(* batmon: a battery monitor.  The module models                           *)
(*   - poll.rs / status.rs : PolledValue<T>::update and the parsers,       *)
(*   - device.rs / battery.rs : Device classification, rating,             *)
(*     Battery::find / new / try_from / update / remaining,                *)
(*   - lib.rs / main.rs : the Battery used by the binary and its daemon    *)
(*     loop (update_battery_and_notify).                                   *)
(* File contents are sequences of atoms (characters, or whole words for    *)
(* the status literals); trim and parse are computed on them.              *)
(***************************************************************************)
EXTENDS Integers, Sequences, FiniteSets, TLC

\* Longest file content (in atoms) the environment writes in PollSpec.
MaxLen == 3

\* u8::MAX, the range of PolledValue<u8> (the level attribute).
U8Max == 255

(***************************************************************************)
(* Text: str::trim and FromStr (poll.rs:33, status.rs:23-33).              *)
(***************************************************************************)
Whitespace == {" ", "\n"}
DigitAtoms == {"0", "1", "2", "3", "4", "5", "6", "7", "8", "9"}
StatusWords == {"Charging", "Discharging", "Full"}

RECURSIVE TrimStart(_)
TrimStart(s) ==
    IF s # <<>> /\ Head(s) \in Whitespace THEN TrimStart(Tail(s)) ELSE s

RECURSIVE TrimEnd(_)
TrimEnd(s) ==
    IF s # <<>> /\ s[Len(s)] \in Whitespace
    THEN TrimEnd(SubSeq(s, 1, Len(s) - 1))
    ELSE s

\* str::trim: leading and trailing whitespace removed, inner whitespace kept.
Trim(s) == TrimEnd(TrimStart(s))

DigitVal(a) ==
    CASE a = "0" -> 0 [] a = "1" -> 1 [] a = "2" -> 2 [] a = "3" -> 3
      [] a = "4" -> 4 [] a = "5" -> 5 [] a = "6" -> 6 [] a = "7" -> 7
      [] a = "8" -> 8 [] a = "9" -> 9

RECURSIVE DigitsValue(_, _)
DigitsValue(s, acc) ==
    IF s = <<>> THEN acc ELSE DigitsValue(Tail(s), acc * 10 + DigitVal(Head(s)))

\* <unsigned>::from_str: an optional "+", then one or more digits and nothing
\* else; bounded types reject a value above their maximum.  A "-", an empty
\* string, a lone "+", or any other character is an error.
ParseUnsigned(s, bounded, max) ==
    LET body == IF s # <<>> /\ Head(s) = "+" THEN Tail(s) ELSE s IN
    IF body = <<>> \/ \E i \in 1..Len(body) : body[i] \notin DigitAtoms
    THEN [ok |-> FALSE, val |-> 0]
    ELSE LET v == DigitsValue(body, 0) IN
         IF bounded /\ v > max THEN [ok |-> FALSE, val |-> 0]
         ELSE [ok |-> TRUE, val |-> v]

\* A u64 is kept at its width, as four 16-bit limbs, the most significant
\* first, so that the wrap-around at 2^64 is computed and not assumed away.
Limb == 65536
MaxDigits == 19
U64(n) == << 0, 0, n \div Limb, n % Limb >>
IsZero(x) == x = U64(0)

\* x < y
Less(x, y) ==
    \E i \in 1..4 : x[i] < y[i] /\ \A j \in 1..(i - 1) : x[j] = y[j]

\* x * k and x + k (k below 2^15): the value modulo 2^64 and the carry out
\* of the top limb; the operation overflows exactly when carry > 0.
MulSmall(x, k) ==
    LET p4 == x[4] * k
        p3 == x[3] * k + p4 \div Limb
        p2 == x[2] * k + p3 \div Limb
        p1 == x[1] * k + p2 \div Limb
    IN [val |-> << p1 % Limb, p2 % Limb, p3 % Limb, p4 % Limb >>,
        carry |-> p1 \div Limb]
AddSmall(x, k) ==
    LET s4 == x[4] + k
        s3 == x[3] + s4 \div Limb
        s2 == x[2] + s3 \div Limb
        s1 == x[1] + s2 \div Limb
    IN [val |-> << s1 % Limb, s2 % Limb, s3 % Limb, s4 % Limb >>,
        carry |-> s1 \div Limb]

\* x - y modulo 2^64; borrow when y > x (the subtraction underflows).
Sub(x, y) ==
    LET d4 == x[4] - y[4]
        d3 == x[3] - y[3] - (IF d4 < 0 THEN 1 ELSE 0)
        d2 == x[2] - y[2] - (IF d3 < 0 THEN 1 ELSE 0)
        d1 == x[1] - y[1] - (IF d2 < 0 THEN 1 ELSE 0)
    IN [val |-> << (d1 + Limb) % Limb, (d2 + Limb) % Limb,
                   (d3 + Limb) % Limb, (d4 + Limb) % Limb >>,
        borrow |-> d1 < 0]

\* x / d and x % d for a divisor d in 1..32767.
DivSmall(x, d) ==
    LET t1 == x[1]
        t2 == (t1 % d) * Limb + x[2]
        t3 == (t2 % d) * Limb + x[3]
        t4 == (t3 % d) * Limb + x[4]
    IN [quot |-> << t1 \div d, t2 \div d, t3 \div d, t4 \div d >>,
        rem |-> t4 % d]

\* x / y for y > 0.  The divisors of this model (the current draw) are below
\* 2^15; a larger divisor is divided by only when it exceeds the dividend.
Div(x, y) ==
    IF Less(x, y) THEN U64(0) ELSE DivSmall(x, y[3] * Limb + y[4]).quot

\* u64::from_str on the digits s: the value, or an error when it exceeds
\* u64::MAX.
RECURSIVE U64Digits(_, _)
U64Digits(s, acc) ==
    IF s = << >> THEN [ok |-> TRUE, val |-> acc]
    ELSE LET m == MulSmall(acc, 10)
             a == AddSmall(m.val, DigitVal(Head(s)))
         IN IF m.carry > 0 \/ a.carry > 0 THEN [ok |-> FALSE, val |-> U64(0)]
            ELSE U64Digits(Tail(s), a.val)

\* u64::from_str: as ParseUnsigned, at the width of u64.
ParseU64(s) ==
    LET body == IF s # << >> /\ Head(s) = "+" THEN Tail(s) ELSE s IN
    IF body = << >> \/ \E i \in 1..Len(body) : body[i] \notin DigitAtoms
    THEN [ok |-> FALSE, val |-> U64(0)]
    ELSE U64Digits(body, U64(0))

\* Display of a u64: its decimal digits.
DigitAtom(n) == CHOOSE a \in DigitAtoms : DigitVal(a) = n
RECURSIVE DecimalDigits(_)
DecimalDigits(x) ==
    IF IsZero(x) THEN << >>
    ELSE LET d == DivSmall(x, 10) IN
         DecimalDigits(d.quot) \o << DigitAtom(d.rem) >>
Decimal(x) == IF IsZero(x) THEN << "0" >> ELSE DecimalDigits(x)

\* {:0>2}: padded on the left with "0" to at least two characters.
Pad2(t) == IF Len(t) < 2 THEN << "0" >> \o t ELSE t

\* ChargingStatus::from_str: exactly one of the three literals.
StatusFromStr(s) ==
    IF Len(s) = 1 /\ s[1] \in StatusWords
    THEN [ok |-> TRUE, val |-> s[1]]
    ELSE [ok |-> FALSE, val |-> "Full"]

\* T::from_str for the three instantiations of PolledValue<T>.
Parse(ty, s) ==
    CASE ty = "u8" -> ParseUnsigned(s, TRUE, U8Max)
      [] ty = "u64" -> ParseU64(s)
      [] ty = "status" -> StatusFromStr(s)

\* A file as read_to_string sees it: ok = FALSE when it is missing or
\* unreadable.
Absent == [ok |-> FALSE, data |-> <<>>]
File(data) == [ok |-> TRUE, data |-> data]

\* A faulty update that, on text that does not parse, stores the zero value
\* of the type instead of keeping the cached one.
PolledUpdateClobbering(ty, value, file) ==
    IF ~file.ok THEN [value |-> value, res |-> "io"]
    ELSE LET p == Parse(ty, Trim(file.data)) IN
         IF p.ok THEN [value |-> p.val, res |-> "ok"]
         ELSE [value |-> p.val, res |-> "parse"]

\* PolledValue::update: the new cached value and the result.
PolledUpdate(ty, value, file) ==
    IF ~file.ok THEN [value |-> value, res |-> "io"]
    ELSE LET p == Parse(ty, Trim(file.data)) IN
         IF p.ok THEN [value |-> p.val, res |-> "ok"]
         ELSE [value |-> value, res |-> "parse"]

(***************************************************************************)
(* State.                                                                  *)
(*   pc, env, bat, tick : the binary (main.rs) and its Battery (lib.rs)    *)
(*   pfile, poll, plast, pgood : one PolledValue (poll.rs) and its file    *)
(*   bfs, bvals, blast : one Battery of battery.rs, the attribute files of its *)
(*                   device, and the most recent operation on it           *)
(*   devs, hint, fpc, cands, fres, flast : the power-supply directory, the *)
(*                   cache hint /tmp/batmon-battery, and Battery::find of  *)
(*                   battery.rs: its position, the candidates still to be  *)
(*                   tried, its result and what the last call did          *)
(***************************************************************************)
VARIABLES pc, env, bat, tick, pfile, poll, plast, pgood, bfs, bvals, blast,
          devs, hint, fpc, cands, fres, flast

dvars == <<pc, env, bat, tick>>
pvars == <<pfile, poll, plast, pgood>>
bvars == <<bfs, bvals, blast>>
fvars == <<devs, hint, fpc, cands, fres, flast>>
vars == <<dvars, pvars, bvars, fvars>>

(***************************************************************************)
(* lib.rs: the Battery of the binary.                                      *)
(***************************************************************************)
\* The attribute files one update pass reads, as the environment offers them.
Line(s) == File(s \o <<"\n">>)
LevelFiles ==
    { Absent, Line(<<"3", "0", "0">>), Line(<<"1", "0">>), Line(<<"1", "1">>),
      Line(<<"2", "0">>), Line(<<"2", "5">>), Line(<<"2", "6">>),
      Line(<<"4", "0">>), Line(<<"5", "0">>), Line(<<"5", "1">>),
      Line(<<"6", "0">>), Line(<<"1", "0", "0">>) }
StatusFiles ==
    { Absent, Line(<<"Charging">>), Line(<<"Discharging">>), Line(<<"Full">>),
      Line(<<"Unknown">>) }
CurrentFiles == { Absent, Line(<<"0">>), Line(<<"9", "0", "0">>) }
ChargeFiles == { Absent, Line(<<"1", "8", "0", "0">>) }
CapacityFiles == { Absent, Line(<<"3", "6", "0", "0">>) }
SysFiles ==
    [capacity : LevelFiles, charge_full : CapacityFiles,
     charge_now : ChargeFiles, status : StatusFiles,
     current_now : CurrentFiles]

\* The struct literal of TryFrom<&DirEntry> before its first update.
LibNewBattery ==
    [level |-> 90, capacity |-> 0, charge |-> 0, current |-> 0,
     status |-> "Full"]

\* read_level, read_capacity, read_charge, read_current: read, trim, parse.
LibReadNum(file, bounded) ==
    IF ~file.ok THEN [ok |-> FALSE, val |-> 0]
    ELSE ParseUnsigned(Trim(file.data), bounded, U8Max)

\* The part of read_status after the level test: read, trim, match.
LibReadStatusFile(file) ==
    IF ~file.ok THEN [ok |-> FALSE, val |-> "Full"]
    ELSE StatusFromStr(Trim(file.data))

\* What the five read_* functions get from the files fs.
LibReads(fs) ==
    [level |-> LibReadNum(fs.capacity, TRUE),
     capacity |-> LibReadNum(fs.charge_full, FALSE),
     charge |-> LibReadNum(fs.charge_now, FALSE),
     status |-> LibReadStatusFile(fs.status),
     current |-> LibReadNum(fs.current_now, FALSE)]

\* The reads the environment can produce in one update pass.
SysReads == { LibReads(fs) : fs \in SysFiles }

\* A faulty read_status that always goes to the status file.
LibReadStatusFileOnly(level, rd) == rd

\* read_status: Full whenever the stored level is 100, the file otherwise.
LibReadStatus(level, rd) ==
    IF level = 100 THEN [ok |-> TRUE, val |-> "Full"] ELSE rd

\* A faulty update that stores the construction default of a field whose
\* read fails.
LibUpdateClobbering(b, rd) ==
    LET level == IF rd.level.ok THEN rd.level.val ELSE LibNewBattery.level
        st == LibReadStatus(level, rd.status)
    IN [level |-> level,
        capacity |-> IF rd.capacity.ok THEN rd.capacity.val
                     ELSE LibNewBattery.capacity,
        charge |-> IF rd.charge.ok THEN rd.charge.val ELSE LibNewBattery.charge,
        status |-> IF st.ok THEN st.val ELSE LibNewBattery.status,
        current |-> IF rd.current.ok THEN rd.current.val
                    ELSE LibNewBattery.current]

\* Battery::update: level, capacity, charge, status, current, in this order;
\* a failed read keeps the field.
LibUpdate(b, rd) ==
    LET level == IF rd.level.ok THEN rd.level.val ELSE b.level
        st == LibReadStatus(level, rd.status)
    IN [level |-> level,
        capacity |-> IF rd.capacity.ok THEN rd.capacity.val ELSE b.capacity,
        charge |-> IF rd.charge.ok THEN rd.charge.val ELSE b.charge,
        status |-> IF st.ok THEN st.val ELSE b.status,
        current |-> IF rd.current.ok THEN rd.current.val ELSE b.current]

\* Battery::remaining.  kind is "full" (the literal Full), "time" (secs is the
\* remaining time), "wrapped" (capacity - charge wrapped around in a build
\* without overflow checks: a number outside this model's range) or "panic"
\* (subtraction overflow in a build with overflow checks, or a zero divisor).
LibRemaining(b, checks) ==
    CASE b.status = "Full" -> [kind |-> "full", secs |-> 0]
      [] b.status = "Discharging" ->
            IF b.current = 0 THEN [kind |-> "panic", secs |-> 0]
            ELSE [kind |-> "time", secs |-> (b.charge * 60 * 60) \div b.current]
      [] b.status = "Charging" ->
            IF b.capacity < b.charge
            THEN IF checks \/ b.current = 0
                 THEN [kind |-> "panic", secs |-> 0]
                 ELSE [kind |-> "wrapped", secs |-> 0]
            ELSE IF b.current = 0 THEN [kind |-> "panic", secs |-> 0]
            ELSE [kind |-> "time",
                  secs |-> ((b.capacity - b.charge) * 60 * 60) \div b.current]

\* Battery::remaining_labelled: the label is chosen first, then remaining()
\* is called unless the status is Full.
LibRemainingLabelled(b, checks) ==
    LET r == LibRemaining(b, checks) IN
    [kind |-> r.kind, secs |-> r.secs,
     label |-> CASE b.status = "Full" -> ""
                 [] b.status = "Charging" -> "until full"
                 [] b.status = "Discharging" -> "remaining"]

\* A faulty find that takes the first directory entry whatever it is.
LibFindAnyEntry(rootOk, entries) ==
    IF ~rootOk \/ entries = << >> THEN 0 ELSE 1

\* Battery::find: the first directory entry that is a battery device; 0 when
\* the root cannot be read or holds none.  entries[i] is is_battery_device().
LibFind(rootOk, entries) ==
    IF ~rootOk \/ \A i \in 1..Len(entries) : ~entries[i] THEN 0
    ELSE CHOOSE i \in 1..Len(entries) :
            entries[i] /\ \A j \in 1..(i - 1) : ~entries[j]

(***************************************************************************)
(* battery.rs: the Battery built from PolledValues.                        *)
(***************************************************************************)
\* The attributes in the order Battery::update polls them, the type of each
\* PolledValue and the file it polls.
Attrs == <<"level", "capacity", "charge", "current", "status", "cycles">>
AttrSet == { Attrs[i] : i \in 1..Len(Attrs) }
AttrType(a) ==
    CASE a = "level" -> "u8"
      [] a = "status" -> "status"
      [] OTHER -> "u64"
AttrFile(a) ==
    CASE a = "level" -> "capacity"
      [] a = "capacity" -> "charge_full"
      [] a = "charge" -> "charge_now"
      [] a = "current" -> "current_now"
      [] a = "status" -> "status"
      [] a = "cycles" -> "cycle_count"

\* The values try_from gives PolledValue::new.
BatteryDefaults ==
    [a \in AttrSet |->
        CASE a = "level" -> 100
          [] a = "status" -> "Full"
          [] OTHER -> U64(0)]

\* A faulty update that returns at the first attribute whose update fails
\* (as if each call ended in ?), leaving the later ones unpolled.
BatteryUpdateUntilFailure(cached, fs) ==
    LET u == [a \in AttrSet |-> PolledUpdate(AttrType(a), cached[a], fs[AttrFile(a)])]
        bad == { i \in 1..Len(Attrs) : u[Attrs[i]].res # "ok" }
        stop == IF bad = {} THEN Len(Attrs)
                ELSE CHOOSE i \in bad : \A j \in bad : i <= j
        Pos(a) == CHOOSE i \in 1..Len(Attrs) : Attrs[i] = a
    IN [vals |-> [a \in AttrSet |-> IF Pos(a) <= stop THEN u[a].value ELSE cached[a]],
        res |-> [a \in AttrSet |-> IF Pos(a) <= stop THEN u[a].res ELSE "skipped"]]

\* Battery::update: every PolledValue is updated, whatever the others return.
\* vals are the cached values afterwards, res the result of each update.
BatteryUpdate(cached, fs) ==
    LET u == [a \in AttrSet |-> PolledUpdate(AttrType(a), cached[a], fs[AttrFile(a)])]
    IN [vals |-> [a \in AttrSet |-> u[a].value],
        res |-> [a \in AttrSet |-> u[a].res]]

\* The tail of Battery::remaining: s, m and h of total_seconds and
\* format!("{h:0>2}:{m:0>2}:{s:0>2}").
RenderTime(total) ==
    LET sec == DivSmall(total, 60).rem
        min == DivSmall(DivSmall(total, 60).quot, 60).rem
        h == DivSmall(DivSmall(total, 60).quot, 60).quot
    IN Pad2(Decimal(h)) \o << ":" >> \o Pad2(Decimal(U64(min)))
          \o << ":" >> \o Pad2(Decimal(U64(sec)))

\* Battery::remaining, on the cached values.  kind is "full" (the literal
\* Full), "time" (secs is total_seconds, text its rendering), "wrapped" (the
\* same in a build without overflow checks after capacity - charge or a
\* multiplication by 60 wrapped around) or "panic" (an overflow in a build
\* with overflow checks, or a zero divisor).
BatteryRemaining(c, checks) ==
    IF c.status = "Full"
    THEN [kind |-> "full", secs |-> U64(0), text |-> << "Full" >>]
    ELSE LET diff == Sub(c.capacity, c.charge)
             amount == IF c.status = "Discharging" THEN c.charge ELSE diff.val
             m1 == MulSmall(amount, 60)
             m2 == MulSmall(m1.val, 60)
             wrapped == \/ c.status = "Charging" /\ diff.borrow
                        \/ m1.carry > 0
                        \/ m2.carry > 0
         IN IF (wrapped /\ checks) \/ IsZero(c.current)
            THEN [kind |-> "panic", secs |-> U64(0), text |-> << >>]
            ELSE LET total == Div(m2.val, c.current) IN
                 [kind |-> IF wrapped THEN "wrapped" ELSE "time",
                  secs |-> total, text |-> RenderTime(total)]

\* Battery::remaining_labelled, also the last field of Display::fmt.
BatteryRemainingLabelled(c, checks) ==
    LET r == BatteryRemaining(c, checks)
        label == CASE c.status = "Full" -> << >>
                   [] c.status = "Charging" -> << "until", " ", "full" >>
                   [] c.status = "Discharging" -> << "remaining" >>
    IN [kind |-> r.kind, secs |-> r.secs, label |-> label,
        text |-> IF c.status = "Full" THEN << "Full" >>
                 ELSE IF r.kind = "panic" THEN << >>
                 ELSE r.text \o << " " >> \o label]

\* The attribute files of the battery's device, as the environment sets them.
BatFiles(f) ==
    CASE f = "capacity" -> { Line(<<"4", "0">>), Line(<<"3", "0", "0">>) }
      [] f = "charge_full" -> { Absent, Line(<<"3", "6", "0", "0">>) }
      [] f = "charge_now" -> { Absent, Line(<<"1", "8", "0", "0">>) }
      [] f = "current_now" -> { Absent, Line(<<"0">>), Line(<<"9", "0", "0">>) }
      [] f = "status" ->
            { Absent, Line(<<"Charging">>), Line(<<"Discharging">>), Line(<<"Full">>) }
      [] f = "cycle_count" -> { Absent, Line(<<"7">>) }
BatFileNames == { AttrFile(a) : a \in AttrSet }


(***************************************************************************)
(* device.rs: classification and rating of a power-supply device.          *)
(***************************************************************************)
\* A path under /sys/class/power_supply: kind is "none" (nothing there),
\* "file" or "dir"; a directory has a type file, a scope file and the
\* attribute files (each possibly absent).  The files named in unreadable
\* exist but cannot be read (read_to_string fails, metadata succeeds).
Image(kind, type, scope, attrs) ==
    [kind |-> kind, type |-> type, scope |-> scope, attrs |-> attrs,
     unreadable |-> {}]
WithUnreadable(img, names) == [img EXCEPT !.unreadable = names]
NoAttrs == [f \in BatFileNames |-> Absent]
FullAttrs ==
    [f \in BatFileNames |->
        CASE f = "capacity" -> Line(<<"4", "0">>)
          [] f = "charge_full" -> Line(<<"3", "6", "0", "0">>)
          [] f = "charge_now" -> Line(<<"1", "8", "0", "0">>)
          [] f = "current_now" -> Line(<<"9", "0", "0">>)
          [] f = "status" -> Line(<<"Discharging">>)
          [] f = "cycle_count" -> Line(<<"7">>)]
PartialAttrs ==
    [f \in BatFileNames |->
        IF f \in {"capacity", "status"} THEN FullAttrs[f] ELSE Absent]

Gone == Image("none", Absent, Absent, NoAttrs)
PlainFile == Image("file", Absent, Absent, NoAttrs)
NoTypeDir == Image("dir", Absent, Absent, NoAttrs)
Mains == Image("dir", Line(<<"Mains">>), Absent, NoAttrs)
FullBattery == Image("dir", Line(<<"Battery">>), Absent, FullAttrs)
PartialBattery == Image("dir", Line(<<"Battery">>), Line(<<"System">>), PartialAttrs)
BareBattery == Image("dir", Line(<<"Battery">>), Absent, NoAttrs)
PeripheralBattery == Image("dir", Line(<<"Battery">>), Line(<<"Device">>), FullAttrs)
\* A battery whose scope file exists but cannot be read.
SecretScopeBattery ==
    WithUnreadable(Image("dir", Line(<<"Battery">>), Absent, PartialAttrs),
                   {"scope"})
\* A battery with four attribute files that do not parse and one that
\* cannot be read.
GarbledAttrs ==
    [f \in BatFileNames |->
        IF f \in {"capacity", "charge_full", "charge_now", "status"}
        THEN Line(<<"-">>) ELSE Absent]
GarbledBattery ==
    WithUnreadable(Image("dir", Line(<<" ", "Battery">>), Line(<<"System">>),
                         GarbledAttrs),
                   {"current_now"})
Images ==
    { Gone, PlainFile, NoTypeDir, Mains, FullBattery, PartialBattery,
      BareBattery, PeripheralBattery, SecretScopeBattery, GarbledBattery }

\* A faulty is_system_battery that does not look at the scope file.
IsSystemBatteryAnyScope(img) ==
    IF img.kind = "none" THEN FALSE
    ELSE IF img.kind # "dir" THEN FALSE
    ELSE IF ~img.type.ok THEN FALSE
    ELSE IF Trim(img.type.data) # <<"Battery">> THEN FALSE
    ELSE TRUE

\* Device::is_system_battery
IsSystemBattery(img) ==
    IF img.kind = "none" THEN FALSE
    ELSE IF img.kind # "dir" THEN FALSE
    ELSE IF ~img.type.ok THEN FALSE
    ELSE IF Trim(img.type.data) # <<"Battery">> THEN FALSE
    ELSE IF img.scope.ok THEN Trim(img.scope.data) = <<"System">>
    ELSE TRUE

\* A faulty has_file_available that asks for a readable file
\* (read_to_string) where the code asks only for its metadata.
HasFileReadable(img, f) ==
    img.kind = "dir" /\ img.attrs[f].ok

\* Device::has_file_available
HasFileAvailable(img, f) ==
    img.kind = "dir" /\ (img.attrs[f].ok \/ f \in img.unreadable)

\* Device::rating: how many of the six attribute files exist.
Rating(img) ==
    Cardinality({ f \in {"current_now", "capacity", "charge_full", "charge_now",
                         "cycle_count", "status"} : HasFileAvailable(img, f) })

(***************************************************************************)
(* battery.rs: construction and discovery.                                 *)
(***************************************************************************)
DevNames == {"BAT0", "BAT1"}

NoBattery == [some |-> FALSE, name |-> "", vals |-> BatteryDefaults]

\* A faulty try_from that checks only that the path exists.
TryFromUnclassified(name, img) ==
    IF img.kind = "none" THEN NoBattery
    ELSE [some |-> TRUE, name |-> name,
          vals |-> BatteryUpdate(BatteryDefaults, img.attrs).vals]

\* TryFrom<&Device>: fails when the path does not exist or is no system
\* battery; otherwise the PolledValues with their defaults, updated once.
TryFrom(name, img) ==
    IF img.kind = "none" THEN NoBattery
    ELSE IF ~IsSystemBattery(img) THEN NoBattery
    ELSE [some |-> TRUE, name |-> name,
          vals |-> BatteryUpdate(BatteryDefaults, img.attrs).vals]

\* What is at /sys/class/power_supply/<text>: the device of that name, the
\* root directory itself for the empty name, nothing for any other text.
Lookup(text, ds) ==
    IF text = << >> THEN NoTypeDir
    ELSE IF Len(text) = 1 /\ text[1] \in DevNames THEN ds[text[1]]
    ELSE Gone

\* A faulty new that pushes the name as read, without trim().
BatteryNewUntrimmed(text, ds) ==
    TryFrom(IF text = << >> THEN "power_supply" ELSE text[Len(text)],
            Lookup(text, ds))

\* Battery::new(name): the device at the trimmed name, then try_from.  The
\* Battery is named by the last component of the path.
BatteryNew(text, ds) ==
    LET t == Trim(text) IN
    TryFrom(IF t = << >> THEN "power_supply" ELSE t[1], Lookup(t, ds))

\* Battery::load_cached_battery: the hint file read, then Battery::new.
LoadCachedBattery(h, ds) ==
    IF ~h.ok THEN NoBattery ELSE BatteryNew(h.data, ds)

\* The fast path of find: taken when the hint file exists and a Battery can
\* be built from it.
CachedBattery(h, ds) ==
    IF h.exists THEN LoadCachedBattery(h, ds) ELSE NoBattery

\* A faulty sort, descending by rating (sort_by_key with Reverse).
RECURSIVE InsertByRatingDescending(_, _)
InsertByRatingDescending(c, sorted) ==
    IF sorted = << >> THEN << c >>
    ELSE IF c.rating > Head(sorted).rating THEN << c >> \o sorted
    ELSE << Head(sorted) >> \o InsertByRatingDescending(c, Tail(sorted))

RECURSIVE SortByRatingDescending(_)
SortByRatingDescending(s) ==
    IF s = << >> THEN << >>
    ELSE InsertByRatingDescending(s[Len(s)],
                                  SortByRatingDescending(SubSeq(s, 1, Len(s) - 1)))

\* sort_by_key(|d| d.1): a stable sort, ascending by rating.
RECURSIVE InsertByRating(_, _)
InsertByRating(c, sorted) ==
    IF sorted = << >> THEN << c >>
    ELSE IF c.rating < Head(sorted).rating THEN << c >> \o sorted
    ELSE << Head(sorted) >> \o InsertByRating(c, Tail(sorted))

RECURSIVE SortByRating(_)
SortByRating(s) ==
    IF s = << >> THEN << >>
    ELSE InsertByRating(s[Len(s)], SortByRating(SubSeq(s, 1, Len(s) - 1)))

\* The two filter_maps, collect and sort of find: the entries, in the order
\* read_dir lists them, that are system batteries, each with its rating.
Candidates(ds, order) ==
    SortByRating(
        SelectSeq([i \in 1..Len(order) |->
                      [name |-> order[i], rating |-> Rating(ds[order[i]])]],
                  LAMBDA c : IsSystemBattery(ds[c.name])))

\* The orders in which read_dir may list the entries that exist.
Orders(ds) ==
    LET present == { n \in DevNames : ds[n].kind # "none" } IN
    { o \in UNION { [1..k -> present] : k \in 0..Cardinality(DevNames) } :
         /\ Len(o) = Cardinality(present)
         /\ \A i, j \in 1..Len(o) : i # j => o[i] # o[j] }

\* The hint file: exists (metadata succeeds), ok (read_to_string succeeds),
\* its text, and who wrote it last.
HintFile(exists, ok, data, by) ==
    [exists |-> exists, ok |-> ok, data |-> data, by |-> by]
NoHint == HintFile(FALSE, FALSE, << >>, "env")
EnvHints ==
    { NoHint, HintFile(TRUE, FALSE, << >>, "env"), HintFile(TRUE, TRUE, << >>, "env") }
      \cup { HintFile(TRUE, TRUE, << n >>, "env") : n \in DevNames }
      \cup { HintFile(TRUE, TRUE, << n, "\n" >>, "env") : n \in DevNames }

(***************************************************************************)
(* main.rs: the notifications of one tick and the daemon loop.             *)
(***************************************************************************)
\* The level thresholds of update_battery_and_notify.
HalfLevel == 50
LowLevel == 25
CriticalLevel == 10

\* The match on (old_state, battery.status): the arm taken, as the sequence
\* of notifications it builds.  body = TRUE when the body is formatted with
\* remaining_labelled().
StatusNotes(old, new) ==
    CASE old = "Discharging" /\ new = "Charging" ->
            << [title |-> "Charging", urgency |-> "Low", body |-> TRUE] >>
      [] old = "Charging" /\ new = "Discharging" ->
            << [title |-> "Discharging", urgency |-> "Normal", body |-> TRUE] >>
      [] old = "Charging" /\ new = "Full" ->
            << [title |-> "Battery full", urgency |-> "Low", body |-> FALSE] >>
      [] OTHER -> << >>

\* The if / else-if chain on old_level.
LevelNotes(old, new) ==
    IF old > HalfLevel
    THEN IF new <= HalfLevel
         THEN << [title |-> "Battery at half", urgency |-> "Low", body |-> TRUE] >>
         ELSE << >>
    ELSE IF old > LowLevel
    THEN IF new <= LowLevel
         THEN << [title |-> "Battery low", urgency |-> "Normal", body |-> TRUE] >>
         ELSE << >>
    ELSE IF old > CriticalLevel
    THEN IF new <= CriticalLevel
         THEN << [title |-> "Battery critical", urgency |-> "Critical", body |-> TRUE] >>
         ELSE << >>
    ELSE << >>

\* The notifications in program order: each body is formatted (which panics
\* when remaining() does), then n.show()? returns early on the failAt-th
\* call of show.  shown are the notifications shown; err is "none", "show"
\* (Err returned) or "panic".
RECURSIVE Dispatch(_, _, _, _)
Dispatch(planned, shown, failAt, panics) ==
    IF planned = << >> THEN [shown |-> shown, err |-> "none"]
    ELSE LET n == Head(planned) IN
         IF n.body /\ panics THEN [shown |-> shown, err |-> "panic"]
         ELSE IF Len(shown) + 1 = failAt THEN [shown |-> shown, err |-> "show"]
         ELSE Dispatch(Tail(planned),
                       Append(shown, [title |-> n.title, urgency |-> n.urgency]),
                       failAt, panics)

\* update_battery_and_notify: the battery after update() and what was shown.
UpdateBatteryAndNotify(b, rd, failAt, checks) ==
    LET new == LibUpdate(b, rd)
        planned == StatusNotes(b.status, new.status)
                     \o LevelNotes(b.level, new.level)
        d == Dispatch(planned, << >>, failAt,
                      LibRemainingLabelled(new, checks).kind = "panic")
    IN [bat |-> new, shown |-> d.shown, err |-> d.err]

\* What the last tick did; cleared when the next one starts (old_state and
\* old_level are locals of update_battery_and_notify).  After the start of
\* the process and before its first tick, stage is "start" and start tells
\* what libnotify::init, Battery::find and the update pass of try_from met.
\* allUnread and statusFile tell what the update pass of the tick met.
NoStart == [initOk |-> TRUE, rootOk |-> TRUE, entries |-> << >>, unread |-> {}]
NoTick ==
    [ran |-> FALSE, oldStatus |-> "Full", oldLevel |-> 0, shown |-> << >>,
     err |-> "none", stage |-> "idle", start |-> NoStart,
     allUnread |-> FALSE, statusFile |-> "none"]

\* What an update pass met in the files: the attributes whose file could not
\* be read or parsed, and what the status file said ("unread" when it could
\* not be read or held no status).
Unread(rd) == { a \in DOMAIN rd : ~rd[a].ok }
StatusFile(rd) == IF rd.status.ok THEN rd.status.val ELSE "unread"

\* The process environment: whether the logger formats info! records
\* (RUST_LOG), whether the build checks integer overflow, and the subcommand
\* ("level" stands for the subcommands that print one stored field).
Envs ==
    [logInfo : BOOLEAN, checks : BOOLEAN,
     cmd : {"daemon", "level", "time", "summary"}]

DirListings == { << >>, <<FALSE>>, <<TRUE>>, <<FALSE, TRUE>> }

(***************************************************************************)
(* The parts at rest: each specification runs one part and leaves the      *)
(* variables of the others as they are here.                               *)
(***************************************************************************)
\* The binary is not running (the specifications of the library parts).
DaemonOff ==
    /\ pc = "off"
    /\ env = [logInfo |-> FALSE, checks |-> FALSE, cmd |-> "level"]
    /\ bat = LibNewBattery
    /\ tick = NoTick

\* No PolledValue is under test.
PollOff ==
    /\ pfile = Absent
    /\ poll = [ty |-> "u8", value |-> 0]
    /\ plast = [op |-> "off"]
    /\ pgood = 0

\* No Battery of battery.rs is under test.
BatOff ==
    /\ bfs = [f \in BatFileNames |-> Absent]
    /\ bvals = BatteryDefaults
    /\ blast = [op |-> "off"]

\* Battery::find of battery.rs is not under test.
FindOff ==
    /\ devs = [n \in DevNames |-> Gone]
    /\ hint = NoHint
    /\ fpc = "off"
    /\ cands = << >>
    /\ fres = NoBattery
    /\ flast = [op |-> "off"]

(***************************************************************************)
(* Spec: the binary run as a daemon or for one query.                      *)
(***************************************************************************)
Init ==
    /\ pc = "start"
    /\ env \in Envs
    /\ bat = LibNewBattery
    /\ tick = NoTick
    /\ PollOff
    /\ BatOff
    /\ FindOff

\* main and run up to the match on the subcommand: libnotify::init and
\* Battery::find (with the update of its try_from).
Start ==
    /\ pc = "start"
    /\ \E initOk \in BOOLEAN, rootOk \in BOOLEAN, entries \in DirListings,
          rd \in SysReads :
         /\ tick' = [NoTick EXCEPT
                        !.stage = "start",
                        !.start = [initOk |-> initOk, rootOk |-> rootOk,
                                   entries |-> entries,
                                   unread |->
                                      IF ~initOk \/ LibFind(rootOk, entries) = 0
                                      THEN {} ELSE Unread(rd)]]
         /\ IF ~initOk \/ LibFind(rootOk, entries) = 0
            THEN pc' = "exit_err" /\ UNCHANGED bat
            ELSE /\ bat' = LibUpdate(LibNewBattery, rd)
                 /\ pc' = "found"
    /\ UNCHANGED <<env, pvars, bvars, fvars>>

\* The match on the subcommand in run: a query arm prints and returns, the
\* daemon arm enters the loop.
Command ==
    /\ pc = "found"
    /\ pc' = CASE env.cmd = "daemon" -> "loop"
               [] env.cmd = "level" -> "exit_ok"
               [] env.cmd = "time" ->
                     IF LibRemaining(bat, env.checks).kind = "panic"
                     THEN "panicked" ELSE "exit_ok"
               [] env.cmd = "summary" ->
                     IF LibRemainingLabelled(bat, env.checks).kind = "panic"
                     THEN "panicked" ELSE "exit_ok"
    /\ tick' = NoTick
    /\ UNCHANGED <<env, bat, pvars, bvars, fvars>>

\* A faulty loop body that drops the Err of update_battery_and_notify (no ?)
\* and sleeps.
AfterTickIgnoringErr(err) ==
    CASE err = "panic" -> "panicked"
      [] OTHER -> "sleeping"

\* Where the loop body goes after update_battery_and_notify(&mut bat)? and
\* info!: the ? returns the Err of a failed show from run, and main then
\* exits with it; a panic unwinds the process; otherwise the thread sleeps.
AfterTick(err) ==
    CASE err = "show" -> "exit_err"
      [] err = "panic" -> "panicked"
      [] OTHER -> "sleeping"

\* One pass of the daemon loop body up to the sleep:
\* update_battery_and_notify(&mut bat)?; info!("{bat}").
Tick ==
    /\ pc = "loop"
    /\ \E rd \in SysReads, failAt \in {0, 1, 2} :
         LET r == UpdateBatteryAndNotify(bat, rd, failAt, env.checks)
             logPanics ==
                 /\ env.logInfo
                 /\ LibRemainingLabelled(r.bat, env.checks).kind = "panic"
             err == IF r.err # "none" THEN r.err
                    ELSE IF logPanics THEN "panic" ELSE "none"
         IN /\ bat' = r.bat
            /\ tick' = [ran |-> TRUE, oldStatus |-> bat.status,
                        oldLevel |-> bat.level, shown |-> r.shown,
                        err |-> err,
                        stage |-> IF r.err # "none" THEN "notify"
                                  ELSE IF logPanics THEN "log" ELSE "sleep",
                        start |-> NoStart,
                        allUnread |-> Unread(rd) = DOMAIN rd,
                        statusFile |-> StatusFile(rd)]
            /\ pc' = AfterTick(err)
    /\ UNCHANGED <<env, pvars, bvars, fvars>>

\* std::thread::sleep returns and the loop starts over.
Wake ==
    /\ pc = "sleeping"
    /\ pc' = "loop"
    /\ tick' = NoTick
    /\ UNCHANGED <<env, bat, pvars, bvars, fvars>>

Next == Start \/ Command \/ Tick \/ Wake

Spec == Init /\ [][Next]_vars

(***************************************************************************)
(* BatSpec: one Battery of battery.rs and the files of its device.         *)
(***************************************************************************)
\* TryFrom<&Device> on a device that is a system battery: the PolledValues
\* with their defaults, then one update.
BatInit ==
    /\ pc = "off"
    /\ env \in [logInfo : {FALSE}, checks : BOOLEAN, cmd : {"level"}]
    /\ bat = LibNewBattery
    /\ tick = NoTick
    /\ PollOff
    /\ FindOff
    /\ bfs \in [BatFileNames -> UNION { BatFiles(f) : f \in BatFileNames }]
    /\ \A f \in BatFileNames : bfs[f] \in BatFiles(f)
    /\ bvals = BatteryUpdate(BatteryDefaults, bfs).vals
    /\ blast = [op |-> "new"]

\* The environment (the kernel) changes one attribute file.
BatWrite ==
    /\ blast.op # "off"
    /\ \E f \in BatFileNames :
         \E c \in BatFiles(f) :
            /\ c # bfs[f]
            /\ bfs' = [bfs EXCEPT ![f] = c]
    /\ blast' = [op |-> "env"]
    /\ UNCHANGED <<bvals, dvars, pvars, fvars>>

\* bat.update()
BatUpdate ==
    /\ blast.op # "off"
    /\ LET u == BatteryUpdate(bvals, bfs) IN
         /\ bvals' = u.vals
         /\ blast' = [op |-> "update", prev |-> bvals, res |-> u.res]
    /\ UNCHANGED <<bfs, dvars, pvars, fvars>>

\* bat.remaining()
BatRemaining ==
    /\ blast.op # "off"
    /\ blast' = [op |-> "remaining", out |-> BatteryRemaining(bvals, env.checks)]
    /\ UNCHANGED <<bfs, bvals, dvars, pvars, fvars>>

\* bat.remaining_labelled(), on its own or as the last field Display::fmt
\* formats for the summary.
BatSummary ==
    /\ blast.op # "off"
    /\ blast' = [op |-> "remaining_labelled",
                 out |-> BatteryRemainingLabelled(bvals, env.checks)]
    /\ UNCHANGED <<bfs, bvals, dvars, pvars, fvars>>

BatNext == BatWrite \/ BatUpdate \/ BatRemaining \/ BatSummary

BatSpec == BatInit /\ [][BatNext]_vars

(***************************************************************************)
(* RemSpec: a Battery of battery.rs constructed over a device, then asked  *)
(* for the remaining time.  The files include charges at the edge of what  *)
(* charge * 60 * 60 can hold in a u64.                                     *)
(***************************************************************************)
Numeral(digits) == Line([i \in 1..Len(digits) |-> DigitAtom(digits[i])])

\* The attribute files of the device.  5124095576030431 is the largest
\* charge whose product with 3600 is below 2^64.
RemFiles(f) ==
    CASE f = "capacity" -> { Line(<<"4", "0">>) }
      [] f = "charge_full" -> { Absent, Line(<<"3", "6", "0", "0">>) }
      [] f = "charge_now" ->
            { Line(<<"0">>), Line(<<"1", "8", "0", "0">>),
              Numeral(<<5, 1, 2, 4, 0, 9, 5, 5, 7, 6, 0, 3, 0, 4, 3, 1>>),
              Numeral(<<5, 1, 2, 4, 0, 9, 5, 5, 7, 6, 0, 3, 0, 4, 3, 2>>) }
      [] f = "current_now" ->
            { Line(<<"0">>), Line(<<"1">>), Line(<<"7">>), Line(<<"9", "0", "0">>) }
      [] f = "status" ->
            { Line(<<"Charging">>), Line(<<"Discharging">>), Line(<<"Full">>) }
      [] f = "cycle_count" -> { Absent }

\* TryFrom<&Device> on a device that is a system battery.
RemInit ==
    /\ pc = "off"
    /\ env \in [logInfo : {FALSE}, checks : BOOLEAN, cmd : {"level"}]
    /\ bat = LibNewBattery
    /\ tick = NoTick
    /\ PollOff
    /\ FindOff
    /\ bfs \in [BatFileNames -> UNION { RemFiles(f) : f \in BatFileNames }]
    /\ \A f \in BatFileNames : bfs[f] \in RemFiles(f)
    /\ bvals = BatteryUpdate(BatteryDefaults, bfs).vals
    /\ blast = [op |-> "new"]

RemNext == BatRemaining \/ BatSummary

RemSpec == RemInit /\ [][RemNext]_vars

(***************************************************************************)
(* FindSpec: Battery::find of battery.rs, the devices and the cache hint.  *)
(***************************************************************************)
FindInit ==
    /\ DaemonOff
    /\ PollOff
    /\ BatOff
    /\ devs \in [DevNames -> Images]
    /\ hint \in EnvHints
    /\ fpc = "idle"
    /\ cands = << >>
    /\ fres = NoBattery
    /\ flast = [op |-> "env"]

\* A device appears, disappears or changes, also while find is running.
DevChange ==
    /\ fpc # "off"
    /\ \E n \in DevNames, img \in Images :
         /\ img # devs[n]
         /\ devs' = [devs EXCEPT ![n] = img]
    /\ IF fpc = "idle"
       THEN fres' = NoBattery /\ flast' = [op |-> "env"]
       ELSE UNCHANGED <<fres, flast>>
    /\ UNCHANGED <<hint, fpc, cands, dvars, pvars, bvars>>

\* Something other than find writes, removes or locks the hint file.
HintChange ==
    /\ fpc # "off"
    /\ \E h \in EnvHints :
         /\ h # hint
         /\ hint' = h
    /\ IF fpc = "idle"
       THEN fres' = NoBattery /\ flast' = [op |-> "env"]
       ELSE UNCHANGED <<fres, flast>>
    /\ UNCHANGED <<devs, fpc, cands, dvars, pvars, bvars>>

\* find up to its for loop: the fast path, else read_dir, the filters and
\* the sort.
FindBegin ==
    /\ fpc = "idle"
    /\ LET c == CachedBattery(hint, devs) IN
       IF c.some
       THEN /\ fres' = c
            /\ fpc' = "idle"
            /\ cands' = << >>
            /\ flast' = [op |-> "find", via |-> "cache", sorted |-> << >>,
                         failed |-> << >>, wrote |-> FALSE]
       ELSE \E rootOk \in BOOLEAN :
              IF ~rootOk
              THEN /\ fres' = NoBattery
                   /\ fpc' = "idle"
                   /\ cands' = << >>
                   /\ flast' = [op |-> "find", via |-> "noroot", sorted |-> << >>,
                                failed |-> << >>, wrote |-> FALSE]
              ELSE \E order \in Orders(devs) :
                     /\ cands' = Candidates(devs, order)
                     /\ fpc' = "constructing"
                     /\ fres' = NoBattery
                     /\ flast' = [op |-> "find", via |-> "enum",
                                  sorted |-> Candidates(devs, order),
                                  failed |-> << >>, wrote |-> FALSE]
    /\ UNCHANGED <<devs, hint, dvars, pvars, bvars>>

\* One pass of the for loop of find: try_from on the next candidate; on
\* success the name is written to the hint (the result of the write is
\* ignored) and the Battery returned; None when no candidate is left.
FindTry ==
    /\ fpc = "constructing"
    /\ IF cands = << >>
       THEN /\ fres' = NoBattery
            /\ fpc' = "idle"
            /\ UNCHANGED <<cands, hint, flast>>
       ELSE LET d == Head(cands)
                t == TryFrom(d.name, devs[d.name])
            IN IF t.some
               THEN /\ \E written \in BOOLEAN :
                         /\ hint' = IF written
                                    THEN HintFile(TRUE, TRUE, << t.name >>, "find")
                                    ELSE hint
                         /\ flast' = [flast EXCEPT !.wrote = written]
                    /\ fres' = t
                    /\ fpc' = "idle"
                    /\ cands' = << >>
               ELSE /\ cands' = Tail(cands)
                    /\ flast' = [flast EXCEPT !.failed = Append(@, d.name)]
                    /\ UNCHANGED <<fres, fpc, hint>>
    /\ UNCHANGED <<devs, dvars, pvars, bvars>>

FindNext == DevChange \/ HintChange \/ FindBegin \/ FindTry

FindSpec == FindInit /\ [][FindNext]_vars

(***************************************************************************)
(* AbsenceSpec: the two places where a battery may not be found: the start *)
(* of the binary (main, run and the find of lib.rs) and the find of        *)
(* battery.rs, each run on its own.                                        *)
(***************************************************************************)
AbsenceInit == Init \/ FindInit

AbsenceNext == Start \/ Command \/ DevChange \/ HintChange \/ FindBegin \/ FindTry

AbsenceSpec == AbsenceInit /\ [][AbsenceNext]_vars

(***************************************************************************)
(* Properties of the daemon (Spec).                                        *)
(***************************************************************************)
StatusTitles == {"Charging", "Discharging", "Battery full"}
LevelTitles == {"Battery at half", "Battery low", "Battery critical"}

\* The notifications of the last tick whose title is in titles.
ShownOf(titles) == SelectSeq(tick.shown, LAMBDA n : n.title \in titles)

\* The status notification the new status calls for.
StatusNoteFor(st) ==
    CASE st = "Discharging" -> [title |-> "Discharging", urgency |-> "Normal"]
      [] st = "Charging" -> [title |-> "Charging", urgency |-> "Low"]
      [] st = "Full" -> [title |-> "Battery full", urgency |-> "Low"]

\* C1: in every tick whose status changed (B.status # A.status), exactly one
\* status notification is shown, the one for the new status B.  Stated for
\* the ticks in which no show failed and nothing panicked.
C1_EveryStatusEdgeNotified ==
    (tick.ran /\ tick.err = "none" /\ bat.status # tick.oldStatus)
        => ShownOf(StatusTitles) = << StatusNoteFor(bat.status) >>

PlannedNotes ==
    StatusNotes(tick.oldStatus, bat.status) \o LevelNotes(tick.oldLevel, bat.level)

CrossedThreshold(old, new) ==
    LET crossed == { t \in {HalfLevel, LowLevel, CriticalLevel} :
                        old > t /\ new <= t }
    IN IF crossed = {} THEN 0
       ELSE CHOOSE t \in crossed : \A u \in crossed : u <= t

LevelNoteFor(t) ==
    CASE t = HalfLevel -> [title |-> "Battery at half", urgency |-> "Low"]
      [] t = LowLevel -> [title |-> "Battery low", urgency |-> "Normal"]
      [] t = CriticalLevel -> [title |-> "Battery critical", urgency |-> "Critical"]

\* C3: in every tick, at most one level notification is shown; one is shown
\* exactly when some threshold t has A > t and B <= t, and it is the one of
\* the highest such t.  Stated for the ticks in which no show failed.
C3_HighestCrossedThreshold ==
    (tick.ran /\ tick.err # "show")
        => ShownOf(LevelTitles) =
              IF CrossedThreshold(tick.oldLevel, bat.level) = 0 THEN << >>
              ELSE << LevelNoteFor(CrossedThreshold(tick.oldLevel, bat.level)) >>

\* C5: with notification delivery succeeding, every tick runs to its sleep
\* (update, notifications, summary) and another tick can follow.
C5_NoTerminalState ==
    (tick.ran /\ tick.err # "show")
        => pc = "sleeping" /\ tick.stage = "sleep" /\ ENABLED Wake

\* C11: a tick in which the status goes from Discharging to Charging shows
\* exactly one 'Charging' notification and no 'Discharging' one; any tick
\* shows at most one status notification, and none when the status did not
\* change.  Stated for the ticks in which no show failed.
C11_OneChargingNotification ==
    (tick.ran /\ tick.err # "show")
        => /\ (tick.oldStatus = "Discharging" /\ bat.status = "Charging")
                 => ShownOf(StatusTitles) = << StatusNoteFor("Charging") >>
           /\ Len(ShownOf(StatusTitles)) <= 1
           /\ bat.status = tick.oldStatus => ShownOf(StatusTitles) = << >>

(***************************************************************************)
(* poll.rs: one PolledValue<T> and the file it polls (PollSpec).           *)
(***************************************************************************)
\* The characters the environment writes to the polled file.
PollAtoms(ty) ==
    IF ty = "status"
    THEN {"Charging", "Discharging", "Full", "Unknown", " ", "\n"}
    ELSE {"0", "2", "5", "6", "+", "-", " ", "\n"}

\* The initial values Battery's try_from passes to PolledValue::new.
InitialValue(ty) ==
    CASE ty = "u8" -> 100
      [] ty = "u64" -> U64(0)
      [] ty = "status" -> "Full"

\* PolledValue::new(initial_value, path): the value is stored whether or not
\* the path is accessible.
PollInit ==
    /\ DaemonOff
    /\ BatOff
    /\ FindOff
    /\ \E ty \in {"u8", "u64", "status"} :
         /\ poll = [ty |-> ty, value |-> InitialValue(ty)]
         /\ pgood = InitialValue(ty)
    /\ pfile \in {Absent, File(<< >>)}
    /\ plast = [op |-> "new"]

\* The environment appends a character to the file, creating it if needed.
PollAppend ==
    /\ plast.op # "off"
    /\ Len(pfile.data) < MaxLen
    /\ \E a \in PollAtoms(poll.ty) : pfile' = File(Append(pfile.data, a))
    /\ plast' = [op |-> "env"]
    /\ UNCHANGED <<poll, pgood, dvars, bvars, fvars>>

\* The environment removes the file or makes it unreadable.
PollRemove ==
    /\ plast.op # "off"
    /\ pfile.ok
    /\ pfile' = Absent
    /\ plast' = [op |-> "env"]
    /\ UNCHANGED <<poll, pgood, dvars, bvars, fvars>>

\* PolledValue::update.  pgood follows the value parsed by the most recent
\* update that returned Ok.
PollUpdate ==
    /\ plast.op # "off"
    /\ LET r == PolledUpdate(poll.ty, poll.value, pfile) IN
         /\ poll' = [poll EXCEPT !.value = r.value]
         /\ plast' = [op |-> "update", res |-> r.res, prev |-> poll.value]
         /\ pgood' = IF r.res = "ok"
                     THEN Parse(poll.ty, Trim(pfile.data)).val
                     ELSE pgood
    /\ UNCHANGED <<pfile, dvars, bvars, fvars>>

PollNext == PollAppend \/ PollRemove \/ PollUpdate

PollSpec == PollInit /\ [][PollNext]_vars

\* Whether from_str accepts the trimmed text s, said without the parser: a
\* status literal, or digits after an optional "+" whose value fits (every
\* numeral of up to 19 digits fits a u64; the files of these specifications
\* hold no longer one).
Accepted(ty, s) ==
    IF ty = "status" THEN s \in { <<w>> : w \in StatusWords }
    ELSE \E k \in 0..1 :
           /\ Len(s) > k
           /\ k = 1 => s[1] = "+"
           /\ \A i \in (k + 1)..Len(s) : s[i] \in DigitAtoms
           /\ ty = "u8" => DigitsValue(SubSeq(s, k + 1, Len(s)), 0) <= U8Max
           /\ ty = "u64" => Len(s) - k <= MaxDigits

\* C4: the cached value is the one parsed by the most recent successful
\* update, or the initial value if none succeeded; an update of an unreadable
\* or unparsable file fails and leaves the cached value unchanged, any other
\* update succeeds and stores the parsed value.
C4_LastGoodValue ==
    /\ plast.op # "off" => poll.value = pgood
    /\ plast.op = "new" => poll.value = InitialValue(poll.ty)
    /\ plast.op = "update" =>
         IF pfile.ok /\ Accepted(poll.ty, Trim(pfile.data))
         THEN plast.res = "ok" /\ poll.value = Parse(poll.ty, Trim(pfile.data)).val
         ELSE plast.res # "ok" /\ poll.value = plast.prev

\* An update failed on an unparsable file after an earlier one had succeeded:
\* the value of the earlier one is still cached.
C4_Witness ==
    /\ plast.op = "update" /\ plast.res = "parse"
    /\ poll.ty = "u8" /\ poll.value = 25 /\ pfile = File(<<"2", "5", "6">>)

(***************************************************************************)
(* Properties of the Battery of battery.rs (BatSpec).                      *)
(***************************************************************************)
\* C6: remaining(), remaining_labelled() and the summary, called with status
\* Charging or Discharging and a cached current of 0, do not crash: they
\* surface an InsufficientData error.
C6_ZeroCurrentGuarded ==
    (/\ blast.op \in {"remaining", "remaining_labelled"}
     /\ bvals.status # "Full" /\ IsZero(bvals.current))
        => blast.out.kind = "InsufficientData"

\* Whether update() of attribute a fails on the files fs.
ReadFails(a, fs) ==
    \/ ~fs[AttrFile(a)].ok
    \/ ~Accepted(AttrType(a), Trim(fs[AttrFile(a)].data))

\* C7: one update() attempts all six attributes; exactly the attributes whose
\* read fails keep their previous value, every other one has the value of
\* its file.
C7_UpdateIsPerAttribute ==
    blast.op = "update" =>
        \A a \in AttrSet :
            IF ReadFails(a, bfs)
            THEN blast.res[a] # "ok" /\ bvals[a] = blast.prev[a]
            ELSE /\ blast.res[a] = "ok"
                 /\ bvals[a] = Parse(AttrType(a), Trim(bfs[AttrFile(a)].data)).val

\* An update in which the first attribute polled (level, now unparsable) and
\* a middle one (charge, now unreadable) failed and kept their values while
\* the attributes polled after them were refreshed.
C7_Witness ==
    /\ blast.op = "update"
    /\ ReadFails("level", bfs) /\ ReadFails("charge", bfs)
    /\ blast.prev.level = 40 /\ bvals.level = 40
    /\ blast.prev.charge = U64(1800) /\ bvals.charge = U64(1800)
    /\ blast.prev.status = "Charging" /\ bvals.status = "Discharging"
    /\ blast.prev.current = U64(0) /\ bvals.current = U64(900)
    /\ blast.prev.cycles = U64(0) /\ bvals.cycles = U64(7)

(***************************************************************************)
(* Properties of remaining() (RemSpec).                                    *)
(***************************************************************************)
\* A number of up to 80 bits: the carry of a multiplication and its value.
Wide(m) == << m.carry >> \o m.val
WideLeq(a, b) ==
    a = b \/ \E i \in 1..5 : a[i] < b[i] /\ \A j \in 1..(i - 1) : a[j] = b[j]

\* total = amount * 3600 / current in integer division, in exact arithmetic:
\* total * current <= amount * 3600 < total * current + current.
IsQuotient(total, amount, current) ==
    LET prod == Wide(MulSmall(amount, 3600))
        low == MulSmall(total, current)
        next == AddSmall(low.val, current)
    IN /\ WideLeq(Wide(low), prod)
       /\ ~WideLeq(<< low.carry + next.carry >> \o next.val, prod)

\* text reads HH:MM:SS: two-digit minutes and seconds in 0..59, hours of two
\* digits or more (no padding beyond two), and
\* hours * 3600 + minutes * 60 + seconds = amount * 3600 / current.
IsTimeText(text, amount, current) ==
    LET colons == { i \in 1..Len(text) : text[i] = ":" } IN
    /\ Cardinality(colons) = 2
    /\ LET i1 == CHOOSE i \in colons : \A j \in colons : i <= j
           i2 == CHOOSE i \in colons : \A j \in colons : j <= i
           hh == SubSeq(text, 1, i1 - 1)
           mm == SubSeq(text, i1 + 1, i2 - 1)
           ss == SubSeq(text, i2 + 1, Len(text))
       IN /\ \A i \in 1..Len(text) : text[i] \in DigitAtoms \cup {":"}
          /\ Len(mm) = 2 /\ Len(ss) = 2 /\ Len(hh) >= 2
          /\ Len(hh) > 2 => hh[1] # "0"
          /\ DigitsValue(mm, 0) < 60 /\ DigitsValue(ss, 0) < 60
          /\ U64Digits(hh, U64(0)).ok
          /\ LET h3600 == MulSmall(U64Digits(hh, U64(0)).val, 3600)
                 total == AddSmall(h3600.val,
                                   DigitsValue(mm, 0) * 60 + DigitsValue(ss, 0))
             IN /\ h3600.carry = 0 /\ total.carry = 0
                /\ IsQuotient(total.val, amount, current)

\* The quantity remaining() divides: the charge when discharging, what is
\* missing to the capacity when charging.
Amount(c) ==
    IF c.status = "Discharging" THEN c.charge ELSE Sub(c.capacity, c.charge).val

\* C12: with current > 0 (and charge <= capacity when Charging), remaining()
\* returns 'Full' when the status is Full and otherwise the HH:MM:SS
\* rendering of charge * 3600 / current (Discharging) or
\* (capacity - charge) * 3600 / current (Charging); Discharging with charge
\* 1800 and current 900 gives 02:00:00; remaining_labelled() appends
\* ' remaining' or ' until full' and yields the bare 'Full' when Full.
C12_RemainingRendersTime ==
    (/\ blast.op \in {"remaining", "remaining_labelled"}
     /\ ~IsZero(bvals.current)
     /\ bvals.status = "Charging" => ~Less(bvals.capacity, bvals.charge))
        => LET label == CASE bvals.status = "Charging" -> << " ", "until", " ", "full" >>
                          [] bvals.status = "Discharging" -> << " ", "remaining" >>
                          [] OTHER -> << >>
               suffix == IF blast.op = "remaining" THEN << >> ELSE label
               text == blast.out.text
               n == Len(text) - Len(suffix)
               cur == bvals.current[3] * Limb + bvals.current[4]
           IN IF bvals.status = "Full" THEN text = << "Full" >>
              ELSE /\ n > 0
                   /\ SubSeq(text, n + 1, Len(text)) = suffix
                   /\ IsTimeText(SubSeq(text, 1, n), Amount(bvals), cur)
                   /\ (/\ bvals.status = "Discharging"
                       /\ bvals.charge = U64(1800) /\ bvals.current = U64(900))
                         => SubSeq(text, 1, n)
                               = << "0", "2", ":", "0", "0", ":", "0", "0" >>

\* C12 where charge * 60 * 60 (or (capacity - charge) * 60 * 60) fits a u64.
C12_RemainingWithinRange ==
    (MulSmall(Amount(bvals), 3600).carry = 0) => C12_RemainingRendersTime

(***************************************************************************)
(* Properties of Battery::find (FindSpec).                                 *)
(***************************************************************************)
\* A step of find from its start (the fast path or the enumeration), and a
\* pass of its for loop; the environment's steps are the others.
FindBeginStep == fpc = "idle" /\ flast'.op = "find"
FindTryStep == fpc = "constructing" /\ (fpc' # fpc \/ cands' # cands)

\* cs lists exactly the devices of ds that are system batteries, once each,
\* each with its rating, in ascending order of rating.
IsEnumerationOf(cs, ds) ==
    /\ { cs[i].name : i \in 1..Len(cs) } = { n \in DevNames : IsSystemBattery(ds[n]) }
    /\ \A i, j \in 1..Len(cs) : i # j => cs[i].name # cs[j].name
    /\ \A i \in 1..Len(cs) : cs[i].rating = Rating(ds[cs[i].name])
    /\ \A i, j \in 1..Len(cs) : i < j => cs[i].rating <= cs[j].rating

\* Whether a Battery can be constructed from device n now.
Constructible(n, ds) == ds[n].kind # "none" /\ IsSystemBattery(ds[n])

\* The device a readable hint names, "" when it names none.
HintName(h) ==
    IF h.exists /\ h.ok /\ Len(Trim(h.data)) = 1 /\ Trim(h.data)[1] \in DevNames
    THEN Trim(h.data)[1] ELSE ""

\* The hint can be used: it names a device that exists and is a system
\* battery.
HintValid(h, ds) == HintName(h) # "" /\ Constructible(HintName(h), ds)

\* C8: when the fast path is not taken, find keeps the enumerated devices
\* that are system batteries, in ascending order of rating, and returns the
\* first of them whose construction succeeds (None when none does): a
\* candidate is passed over only after its construction failed, and the one
\* returned is rated lowest among the candidates still constructible.
C8_FirstConstructibleByRating ==
    [][ /\ (FindBeginStep /\ flast'.via = "enum") =>
              fpc' = "constructing" /\ IsEnumerationOf(cands', devs)
        /\ (FindTryStep /\ cands = << >>) => (fpc' = "idle" /\ ~fres'.some)
        /\ (FindTryStep /\ cands # << >>) =>
              IF Constructible(Head(cands).name, devs)
              THEN /\ fpc' = "idle" /\ fres'.some
                   /\ fres'.name = Head(cands).name
                   /\ \A i \in 1..Len(cands) :
                         Constructible(cands[i].name, devs)
                            => Head(cands).rating <= cands[i].rating
                   /\ \A i \in 1..Len(flast.failed) :
                         flast.sorted[i].name = flast.failed[i]
                   /\ flast.sorted[Len(flast.failed) + 1].name = fres'.name
              ELSE /\ fpc' = "constructing" /\ ~fres'.some
                   /\ cands' = Tail(cands)
      ]_vars

\* Two system batteries of ratings 0 and 6 were enumerated and the one rated
\* 0 was returned.
C8_Witness ==
    /\ flast.op = "find" /\ flast.via = "enum" /\ fres.some
    /\ Len(flast.sorted) = 2 /\ flast.failed = << >>
    /\ flast.sorted[1].rating = 0 /\ flast.sorted[2].rating = 6
    /\ fres.name = flast.sorted[1].name
    /\ \A n \in DevNames : Constructible(n, devs)

\* C9: a find that starts with a hint naming a device that is present and
\* is a system battery (as after a find that selected the device and wrote
\* its name) returns that device by the fast path, without enumerating and
\* without touching the hint, whatever other batteries there are.
C9_CacheRoundTrip ==
    [][ (FindBeginStep /\ HintValid(hint, devs)) =>
            /\ fres'.some /\ fres'.name = HintName(hint)
            /\ flast'.via = "cache" /\ fpc' = "idle" /\ cands' = << >>
            /\ hint' = hint
      ]_vars

\* The hint was written by an earlier find (BAT0, rated 6); a battery rated 0
\* is there as well, and find returned BAT0 by the fast path.
C9_Witness ==
    /\ flast.op = "find" /\ flast.via = "cache"
    /\ hint.by = "find" /\ fres.some /\ fres.name = "BAT0"
    /\ devs["BAT0"] = FullBattery /\ devs["BAT1"] = BareBattery

Collected(cs) == { cs[i].name : i \in 1..Len(cs) }

\* The type file is readable and reads Battery once trimmed.
TypeIsBattery(img) ==
    img.kind = "dir" /\ img.type.ok /\ Trim(img.type.data) = << "Battery" >>
ScopeIsSystem(img) == img.scope.ok /\ Trim(img.scope.data) = << "System" >>
ScopeAbsent(img) == ~img.scope.ok /\ "scope" \notin img.unreadable

StartStep == pc = "start" /\ pc' # "start"

\* C14: find returns None exactly when the fast path yields no battery and
\* no collected device is constructed: from its start only when the hint is
\* not usable and the root cannot be read, from its loop only when no
\* candidate is left, every candidate passed over having failed to
\* construct; it returns a Battery only for a device that exists and is a
\* system battery.  When the find of the binary returns None, run returns
\* the error at once: the process ends in failure from the start, with the
\* battery untouched, nothing printed, nothing shown and no tick (a tick
\* needs pc = "loop").
C14_AbsenceIsFatal ==
    [][ /\ FindBeginStep =>
              /\ fres'.some <=> HintValid(hint, devs)
              /\ (fpc' = "idle" /\ ~fres'.some) <=>
                    (~HintValid(hint, devs) /\ flast'.via = "noroot")
        /\ FindTryStep =>
              /\ fres'.some <=>
                    (cands # << >> /\ Constructible(Head(cands).name, devs))
              /\ (fpc' = "idle" /\ ~fres'.some) <=> cands = << >>
        /\ ((FindBeginStep \/ FindTryStep) /\ fres'.some) =>
              Constructible(fres'.name, devs)
        /\ (StartStep /\ tick'.start.initOk) =>
              LET st == tick'.start
                  none == \/ ~st.rootOk
                          \/ \A i \in 1..Len(st.entries) : ~st.entries[i]
              IN IF none
                 THEN /\ pc' = "exit_err"
                      /\ bat' = bat
                      /\ ~tick'.ran /\ tick'.shown = << >>
                 ELSE pc' = "found"
      ]_vars

\* find collected a system battery, failed to construct it (the device had
\* gone by then) and returned None.
C14_Witness ==
    /\ flast.op = "find" /\ flast.via = "enum" /\ fpc = "idle"
    /\ ~fres.some /\ Len(flast.sorted) = 1 /\ flast.failed = << flast.sorted[1].name >>

\* The binary found the root readable but no battery in it, and ended in
\* failure before any tick.
C14_StartWithoutBattery ==
    /\ tick.stage = "start" /\ tick.start.initOk /\ tick.start.rootOk
    /\ tick.start.entries = << FALSE >>
    /\ pc = "exit_err" /\ env.cmd = "daemon"

(***************************************************************************)
(* Properties of the construction of a Battery (Spec, BatSpec).            *)
(***************************************************************************)
\* The neutral defaults: 100 for the level, Full for the status, 0 for the
\* counters.
NeutralLevel == 100
NeutralStatus == "Full"

\* C15 for the Battery of battery.rs: constructed over a system battery, it
\* holds the neutral default of every attribute whose file is unreadable or
\* unparsable.
C15_PolledDefaults ==
    blast.op = "new" =>
        \A a \in AttrSet :
            ReadFails(a, bfs) =>
                bvals[a] = CASE a = "level" -> NeutralLevel
                             [] a = "status" -> NeutralStatus
                             [] OTHER -> U64(0)

\* C15: construction over a battery device does not fail on attribute read
\* errors, and after its one update pass every attribute whose file was
\* unreadable or unparsable holds its neutral default: level 100, capacity,
\* charge, current (and cycle count) 0, status Full.  Said of the Battery
\* the binary constructs (lib.rs) and of the Battery of battery.rs.
C15_NeutralDefaults ==
    /\ (tick.stage = "start" /\ pc = "found") =>
          \A a \in tick.start.unread :
              bat[a] = CASE a = "level" -> NeutralLevel
                         [] a = "status" -> NeutralStatus
                         [] OTHER -> 0
    /\ C15_PolledDefaults

(***************************************************************************)
(* Rating (FindSpec).                                                      *)
(***************************************************************************)
RatedFiles ==
    << "current_now", "capacity", "charge_full", "charge_now", "cycle_count",
       "status" >>

\* The file f exists under the device, whatever it holds and whether or not
\* it can be read.
Present(img, f) ==
    img.kind = "dir" /\ (img.attrs[f] # Absent \/ f \in img.unreadable)

RECURSIVE CountPresent(_, _)
CountPresent(img, fs) ==
    IF fs = << >> THEN 0
    ELSE (IF Present(img, Head(fs)) THEN 1 ELSE 0) + CountPresent(img, Tail(fs))

SamePresence(a, b) ==
    \A i \in 1..Len(RatedFiles) :
        Present(a, RatedFiles[i]) <=> Present(b, RatedFiles[i])

\* C16: when find enumerates the devices, the rating it gives each
\* classified device is exactly the number, between 0 and 6, of the six
\* attribute files present under it, the same for any other content of those
\* files; the rating only orders the candidates, so that a classified
\* battery is constructed and returned by the loop whatever its rating,
\* rating 0 included.
C16_RatingCountsPresentFiles ==
    [][ /\ (FindBeginStep /\ flast'.via = "enum") =>
              \A i \in 1..Len(cands') :
                  LET c == cands'[i] IN
                  /\ c.rating = CountPresent(devs[c.name], RatedFiles)
                  /\ c.rating \in 0..Len(RatedFiles)
                  /\ \A img \in Images :
                        (IsSystemBattery(img) /\ SamePresence(img, devs[c.name]))
                            => Rating(img) = c.rating
        /\ (FindTryStep /\ cands # << >>
                /\ IsSystemBattery(devs[Head(cands).name])) =>
              /\ fres'.some
              /\ fres'.name = Head(cands).name
      ]_vars

\* find has returned a battery it rated 0 while rating another device, one
\* of whose files cannot be read, 5.
C16_Witness ==
    /\ flast.op = "find"
    /\ flast.via = "enum"
    /\ fres.some
    /\ \E i, j \in 1..Len(flast.sorted) :
          /\ flast.sorted[i].name = fres.name
          /\ flast.sorted[i].rating = 0
          /\ flast.sorted[j].rating = 5

(***************************************************************************)
(* Status and level together (Spec).                                       *)
(***************************************************************************)
\* C17: a tick in which the status becomes Full (it was not Full before the
\* update and is Full after it) shows no level-threshold notification,
\* whatever the levels before and after.
C17_FullSuppressesLevelNotes ==
    (tick.ran /\ tick.oldStatus # "Full" /\ bat.status = "Full")
        => ShownOf(LevelTitles) = << >>

\* The process holds a Battery: Battery::find has returned one.
Constructed == pc \notin {"start", "exit_err"}

\* C18: in the Battery of lib.rs, once it is constructed and after every
\* update pass, a level of 100 goes with the status Full, whatever the status
\* file holds and whether or not it can be read.
C18_FullLevelMeansFull ==
    Constructed => (bat.level = 100 => bat.status = "Full")

\* A tick has left the level at 100 while the status file said Discharging,
\* the status before the tick.
C18_Witness ==
    /\ tick.ran
    /\ bat.level = 100
    /\ tick.statusFile = "Discharging"
    /\ tick.oldStatus = "Discharging"

(***************************************************************************)
(* Ticks that change nothing (Spec).                                       *)
(***************************************************************************)
TickStep == pc = "loop" /\ tick'.ran

\* C19: a tick in which every attribute read fails, the file being
\* unreadable or its content unparsable, leaves the battery as it was before
\* the tick and shows no notification; and any tick that leaves level and
\* status as they were shows no notification.
C19_QuietTick ==
    [][ TickStep =>
          /\ tick'.allUnread => (bat' = bat /\ tick'.shown = << >>)
          /\ (bat'.level = bat.level /\ bat'.status = bat.status)
                => tick'.shown = << >>
      ]_vars

\* A tick in which no attribute could be read has ended, on a battery that
\* is charging at a level under the first threshold.
C19_Witness ==
    /\ tick.ran
    /\ tick.allUnread
    /\ tick.oldStatus = "Charging"
    /\ bat.status = "Charging"
    /\ bat.level = 40
    /\ tick.oldLevel = 40

(***************************************************************************)
(* The subtraction of remaining (BatSpec).                                 *)
(***************************************************************************)
\* C20: whenever remaining() runs on a Battery whose status is Charging,
\* whatever updates came before, capacity - charge does not underflow: the
\* cached charge is not greater than the cached capacity.
C20_ChargingSubtractionInRange ==
    (blast.op = "remaining" /\ bvals.status = "Charging")
        => /\ ~Less(bvals.capacity, bvals.charge)
           /\ ~Sub(bvals.capacity, bvals.charge).borrow
====
